---- MODULE Spec2Model ----
(***************************************************************************)
(* State-machine model of drivers/hid/hid-xpadneo.c: the HID driver for    *)
(* Xbox One S/X gamepads over Bluetooth.  One device connection is         *)
(* modelled: probe, the per-usage input-mapping hook, the input-configured *)
(* hook, device initialisation (hello rumble + force-feedback             *)
(* registration), and then the raw-event hook, the per-usage event hook    *)
(* and the force-feedback play callback, until the device is removed.      *)
(***************************************************************************)
EXTENDS Integers, Sequences, FiniteSets, TLC

(***************************************************************************)
(* Bounds of the model.                                                    *)
(***************************************************************************)
\* how many of a connection's output reports the model keeps (the first
\* MaxOut: the two hello packages, then rumble commands)
MaxOut == 3
\* largest value the 4-bit hat field is fed to the event hook with
MaxValue == 9

(***************************************************************************)
(* Names of the kernel's constants (linux/hid.h, input-event-codes.h).     *)
(***************************************************************************)
HID_UP_GENDESK == "HID_UP_GENDESK"
HID_UP_SIMULATION == "HID_UP_SIMULATION"
HID_UP_BUTTON == "HID_UP_BUTTON"
HID_UP_CONSUMER == "HID_UP_CONSUMER"
HID_UP_GENDEVCTRLS == "HID_UP_GENDEVCTRLS"

EV_KEY == "EV_KEY"
EV_ABS == "EV_ABS"
\* the zero of a map_entry's event type and input code (a zeroed static struct)
EV_0 == "0"
CODE_0 == "0"

\* a null input_ev pointer: an array of no elements
NULL == <<>>

(***************************************************************************)
(* FF output report (struct ff_data, struct ff_report, both __packed).     *)
(***************************************************************************)
FF_ENABLE_RMBL_LEFT == 2
FF_ENABLE_RMBL_RIGHT == 1

\* static const struct ff_data ff_clear: all fields zero
ff_clear ==
  [enable_actuators |-> 0, reserved |-> <<0, 0>>, magnitude_left |-> 0,
   magnitude_right |-> 0, duration |-> 0, start_delay |-> 0, loop_count |-> 0]

\* ff_report_bytes with the two magnitude fields in the other order
ff_report_bytes_swapped(report_id, ff) ==
  <<report_id, ff.enable_actuators>> \o ff.reserved \o
  <<ff.magnitude_right, ff.magnitude_left, ff.duration, ff.start_delay,
    ff.loop_count>>

\* (u8*)&ff_package, sizeof(ff_package): the packed struct ff_report as the
\* byte array handed to hid_hw_output_report
ff_report_bytes(report_id, ff) ==
  <<report_id, ff.enable_actuators>> \o ff.reserved \o
  <<ff.magnitude_left, ff.magnitude_right, ff.duration, ff.start_delay,
    ff.loop_count>>

\* HighByte without the shift: (u8)(x & 0xFF00) keeps the low byte's place
HighByte_unshifted(x) == (x % 65536) % 256

\* (u8)((x & 0xFF00) >> 8) for a u16 x
HighByte(x) == ((x % 65536) \div 256) % 256

\* the report xpadneo_ff_play builds from the effect's magnitudes
xpadneo_ff_play(weak, strong) ==
  ff_report_bytes(3,
    [ff_clear EXCEPT
       \* FF_ENABLE_RMBL_RIGHT | FF_ENABLE_RMBL_LEFT: disjoint bits, so the sum
       !.enable_actuators = FF_ENABLE_RMBL_RIGHT + FF_ENABLE_RMBL_LEFT,
       !.magnitude_right = HighByte(weak),
       !.magnitude_left = HighByte(strong),
       !.duration = 255,
       !.loop_count = 255])

\* the two 'hello' rumble packages of xpadneo_initDevice, in sending order
hello_right ==
  ff_report_bytes(3,
    [ff_clear EXCEPT !.enable_actuators = FF_ENABLE_RMBL_RIGHT,
                     !.magnitude_right = 153, !.duration = 50])

hello_left ==
  ff_report_bytes(3,
    [ff_clear EXCEPT !.enable_actuators = FF_ENABLE_RMBL_LEFT,
                     !.magnitude_left = 153, !.duration = 50])

(***************************************************************************)
(* Input mapping structures.                                               *)
(***************************************************************************)
MAP_IGNORE == 0
MAP_AUTO == 1
MAP_STATIC == 2

RET_MAP_IGNORE == -1
RET_MAP_AUTO == 0
RET_MAP_STATIC == 1

\* struct map_entry
map_entry(t, ev, code) ==
  [map_type |-> t, map_to_event_type |-> ev, map_to_input_code |-> code]

\* an element of input_ev no designator names: zero, that is MAP_IGNORE
zero_entry == map_entry(MAP_IGNORE, EV_0, CODE_0)

MaxOf(S) == CHOOSE x \in S : \A y \in S : y <= x

\* (struct map_entry[]) { [i] = ..., ... }: a compound literal with
\* designated initialisers has highest designator + 1 elements; elements
\* without a designator are zero
input_ev_array(des) ==
  [i \in 0 .. MaxOf(DOMAIN des) |->
     IF i \in DOMAIN des THEN des[i] ELSE zero_entry]

\* struct map_usagepage
map_usagepage(max, des) == [max |-> max, input_ev |-> input_ev_array(des)]

\* a struct map_usagepage no designator names: .max = 0, .input_ev = NULL
zero_usagepage == [max |-> 0, input_ev |-> NULL]

xboxone_s_map ==
  [button |-> map_usagepage(\h0F,
       \h01 :> map_entry(MAP_STATIC, EV_KEY, "BTN_SOUTH")
    @@ \h02 :> map_entry(MAP_STATIC, EV_KEY, "BTN_EAST")
    @@ \h04 :> map_entry(MAP_STATIC, EV_KEY, "BTN_NORTH")
    @@ \h05 :> map_entry(MAP_STATIC, EV_KEY, "BTN_WEST")
    @@ \h07 :> map_entry(MAP_STATIC, EV_KEY, "BTN_TL")
    @@ \h08 :> map_entry(MAP_STATIC, EV_KEY, "BTN_TR")
    @@ \h0C :> map_entry(MAP_STATIC, EV_KEY, "BTN_START")
    @@ \h0E :> map_entry(MAP_STATIC, EV_KEY, "BTN_THUMBL")
    @@ \h0F :> map_entry(MAP_STATIC, EV_KEY, "BTN_THUMBR")),
   consumer |-> map_usagepage(\h224,
       \h223 :> map_entry(MAP_STATIC, EV_KEY, "BTN_MODE")
    @@ \h224 :> map_entry(MAP_STATIC, EV_KEY, "BTN_SELECT")),
   generic_desktop |-> map_usagepage(\h39,
       \h30 :> map_entry(MAP_STATIC, EV_ABS, "ABS_X")
    @@ \h31 :> map_entry(MAP_STATIC, EV_ABS, "ABS_Y")
    @@ \h32 :> map_entry(MAP_STATIC, EV_ABS, "ABS_RX")
    @@ \h35 :> map_entry(MAP_STATIC, EV_ABS, "ABS_RY")
    @@ \h39 :> map_entry(MAP_AUTO, EV_0, CODE_0)),
   simulation |-> map_usagepage(\hC5,
       \hC4 :> map_entry(MAP_STATIC, EV_ABS, "ABS_RZ")
    @@ \hC5 :> map_entry(MAP_STATIC, EV_ABS, "ABS_Z")),
   generic_device_control |-> zero_usagepage]

\* xboxone_x_map with usage 0x06 mapped to BTN_TL, as usage 0x05 is
xboxone_x_map_tr_as_tl ==
  [button |-> map_usagepage(\h0A,
       \h01 :> map_entry(MAP_STATIC, EV_KEY, "BTN_SOUTH")
    @@ \h02 :> map_entry(MAP_STATIC, EV_KEY, "BTN_EAST")
    @@ \h03 :> map_entry(MAP_STATIC, EV_KEY, "BTN_WEST")
    @@ \h04 :> map_entry(MAP_STATIC, EV_KEY, "BTN_NORTH")
    @@ \h05 :> map_entry(MAP_STATIC, EV_KEY, "BTN_TL")
    @@ \h06 :> map_entry(MAP_STATIC, EV_KEY, "BTN_TL")
    @@ \h07 :> map_entry(MAP_STATIC, EV_KEY, "BTN_SELECT")
    @@ \h08 :> map_entry(MAP_STATIC, EV_KEY, "BTN_START")
    @@ \h09 :> map_entry(MAP_STATIC, EV_KEY, "BTN_THUMBL")
    @@ \h0A :> map_entry(MAP_STATIC, EV_KEY, "BTN_THUMBR")),
   generic_desktop |-> map_usagepage(\h85,
       \h30 :> map_entry(MAP_STATIC, EV_ABS, "ABS_X")
    @@ \h31 :> map_entry(MAP_STATIC, EV_ABS, "ABS_Y")
    @@ \h32 :> map_entry(MAP_STATIC, EV_ABS, "ABS_Z")
    @@ \h33 :> map_entry(MAP_STATIC, EV_ABS, "ABS_RX")
    @@ \h34 :> map_entry(MAP_STATIC, EV_ABS, "ABS_RY")
    @@ \h35 :> map_entry(MAP_STATIC, EV_ABS, "ABS_RZ")
    @@ \h39 :> map_entry(MAP_AUTO, EV_0, CODE_0)
    @@ \h85 :> map_entry(MAP_STATIC, EV_KEY, "BTN_MODE")),
   simulation |-> zero_usagepage,
   consumer |-> zero_usagepage,
   generic_device_control |-> zero_usagepage]

xboxone_x_map ==
  [button |-> map_usagepage(\h0A,
       \h01 :> map_entry(MAP_STATIC, EV_KEY, "BTN_SOUTH")
    @@ \h02 :> map_entry(MAP_STATIC, EV_KEY, "BTN_EAST")
    @@ \h03 :> map_entry(MAP_STATIC, EV_KEY, "BTN_WEST")
    @@ \h04 :> map_entry(MAP_STATIC, EV_KEY, "BTN_NORTH")
    @@ \h05 :> map_entry(MAP_STATIC, EV_KEY, "BTN_TL")
    @@ \h06 :> map_entry(MAP_STATIC, EV_KEY, "BTN_TR")
    @@ \h07 :> map_entry(MAP_STATIC, EV_KEY, "BTN_SELECT")
    @@ \h08 :> map_entry(MAP_STATIC, EV_KEY, "BTN_START")
    @@ \h09 :> map_entry(MAP_STATIC, EV_KEY, "BTN_THUMBL")
    @@ \h0A :> map_entry(MAP_STATIC, EV_KEY, "BTN_THUMBR")),
   generic_desktop |-> map_usagepage(\h85,
       \h30 :> map_entry(MAP_STATIC, EV_ABS, "ABS_X")
    @@ \h31 :> map_entry(MAP_STATIC, EV_ABS, "ABS_Y")
    @@ \h32 :> map_entry(MAP_STATIC, EV_ABS, "ABS_Z")
    @@ \h33 :> map_entry(MAP_STATIC, EV_ABS, "ABS_RX")
    @@ \h34 :> map_entry(MAP_STATIC, EV_ABS, "ABS_RY")
    @@ \h35 :> map_entry(MAP_STATIC, EV_ABS, "ABS_RZ")
    @@ \h39 :> map_entry(MAP_AUTO, EV_0, CODE_0)
    @@ \h85 :> map_entry(MAP_STATIC, EV_KEY, "BTN_MODE")),
   simulation |-> zero_usagepage,
   consumer |-> zero_usagepage,
   generic_device_control |-> zero_usagepage]

\* what mapping one usage comes to: the hook's return value, the arguments of
\* its hid_map_usage_clear call (none: <<>>), and whether it faulted
map_result(ret, clear, oops) == [ret |-> ret, clear |-> clear, oops |-> oops]

\* m = mup.input_ev[uid]: the read is defined when input_ev is an array and
\* uid is one of its indexes; otherwise the build decides (ub: a fault, or
\* whatever bytes lie there)
read_input_ev(mup, uid, ub) ==
  IF mup.input_ev # NULL /\ uid \in DOMAIN mup.input_ev
  THEN [fault |-> FALSE, m |-> mup.input_ev[uid]]
  ELSE ub

\* what an undefined read can come to: a kernel oops, or an entry of any type
UBReads ==
  {[fault |-> TRUE, m |-> zero_entry],
   [fault |-> FALSE, m |-> zero_entry],
   [fault |-> FALSE, m |-> map_entry(MAP_AUTO, EV_0, CODE_0)],
   [fault |-> FALSE, m |-> map_entry(MAP_STATIC, EV_KEY, "BTN_SOUTH")]}

\* the products the driver's id table names, and their tables
PRODUCT_X == \h02E0
PRODUCT_S == \h02FD

xpadneo_mapping(product, upid, uid, ub) ==
  IF product \notin {PRODUCT_X, PRODUCT_S}
  THEN map_result(RET_MAP_AUTO, <<>>, FALSE)
  ELSE LET device_map ==
             IF product = PRODUCT_X THEN xboxone_x_map ELSE xboxone_s_map
       IN
    IF upid \notin {HID_UP_BUTTON, HID_UP_GENDESK, HID_UP_SIMULATION,
                    HID_UP_CONSUMER}
    THEN map_result(RET_MAP_IGNORE, <<>>, FALSE)
    ELSE LET mup == CASE upid = HID_UP_BUTTON -> device_map.button
                      [] upid = HID_UP_GENDESK -> device_map.generic_desktop
                      [] upid = HID_UP_SIMULATION -> device_map.simulation
                      [] upid = HID_UP_CONSUMER -> device_map.consumer
         IN
      IF uid > mup.max
      THEN map_result(RET_MAP_IGNORE, <<>>, FALSE)
      ELSE LET rd == read_input_ev(mup, uid, ub) IN
        IF rd.fault THEN map_result(RET_MAP_IGNORE, <<>>, TRUE)
        ELSE IF rd.m.map_type = MAP_IGNORE
          THEN map_result(RET_MAP_IGNORE, <<>>, FALSE)
        ELSE IF rd.m.map_type = MAP_AUTO
          THEN map_result(RET_MAP_AUTO, <<>>, FALSE)
        ELSE map_result(RET_MAP_STATIC,
               <<rd.m.map_to_event_type, rd.m.map_to_input_code>>, FALSE)

(***************************************************************************)
(* The report descriptors a device may present, as the list of input       *)
(* usages hid-core walks at input registration, by descriptor length.      *)
(***************************************************************************)
Usage(upid, uid) == <<upid, uid>>

\* the 335-byte descriptor quoted in the source
Desc335 ==
  << Usage(HID_UP_GENDESK, \h30), Usage(HID_UP_GENDESK, \h31),
     Usage(HID_UP_GENDESK, \h32), Usage(HID_UP_GENDESK, \h35),
     Usage(HID_UP_SIMULATION, \hC5), Usage(HID_UP_SIMULATION, \hC4),
     Usage(HID_UP_GENDESK, \h39) >>
  \o [i \in 1 .. 15 |-> Usage(HID_UP_BUTTON, i)]
  \o << Usage(HID_UP_CONSUMER, \h224), Usage(HID_UP_CONSUMER, \h223),
        Usage(HID_UP_GENDEVCTRLS, \h20) >>

\* the 307-byte descriptor: the usages xboxone_x_map is written for
Desc307 ==
  << Usage(HID_UP_GENDESK, \h30), Usage(HID_UP_GENDESK, \h31),
     Usage(HID_UP_GENDESK, \h32), Usage(HID_UP_GENDESK, \h33),
     Usage(HID_UP_GENDESK, \h34), Usage(HID_UP_GENDESK, \h35),
     Usage(HID_UP_GENDESK, \h39) >>
  \o [i \in 1 .. 10 |-> Usage(HID_UP_BUTTON, i)]
  \o << Usage(HID_UP_GENDESK, \h85) >>

\* a descriptor of another length, with usages no table names
DescOther ==
  << Usage(HID_UP_GENDEVCTRLS, \h4B), Usage(HID_UP_BUTTON, \h00),
     Usage(HID_UP_BUTTON, \h01), Usage(HID_UP_BUTTON, \h03),
     Usage(HID_UP_BUTTON, \h10), Usage(HID_UP_GENDESK, \h00),
     Usage(HID_UP_GENDESK, \h36), Usage(HID_UP_GENDESK, \h39),
     Usage(HID_UP_GENDESK, \h86), Usage(HID_UP_CONSUMER, \h225),
     Usage(HID_UP_CONSUMER, \h01), Usage(HID_UP_SIMULATION, \hC4),
     Usage(HID_UP_SIMULATION, \h00), Usage(HID_UP_CONSUMER, \h00),
     Usage(HID_UP_GENDEVCTRLS, \h20) >>

RSizes == {307, 335, 283}

Desc(rsize) ==
  CASE rsize = 335 -> Desc335
    [] rsize = 307 -> Desc307
    [] OTHER -> DescOther

Products == {PRODUCT_X, PRODUCT_S, \h02EA}

(***************************************************************************)
(* State.                                                                  *)
(***************************************************************************)
VARIABLES
  product,          \* hdev->product
  dev_rsize,        \* hdev->dev_rsize: byte length of the report descriptor
  dpad_as_buttons,  \* the module parameter
  pc,               \* where the connection is: "unbound", "mapping",
                    \* "configure", "init", "bound", "oops"
  mi,               \* index of the next usage hid-core hands to the mapping hook
  umap,             \* per usage of the descriptor: the (type, code) it is mapped to
  keybit,           \* input->keybit, as the set of key codes
  absbit,           \* input->absbit, as the set of axis codes
  ffbit,            \* the FF_RUMBLE capability bit
  ff_play,          \* xpadneo_ff_play is registered as the memless play callback
  out,              \* the first MaxOut reports handed to hid_hw_output_report,
                    \* in order
  cur_report,       \* ID of the report hid-core is parsing (0: none)
  first_len,        \* payload length of the first report-ID-1 report seen (0: none)
  last              \* the latest hook call: its arguments (and what the calls
                    \* it made returned), its return value, the calls it made
                    \* and the events the input device passed on

vars ==
  <<product, dev_rsize, dpad_as_buttons, pc, mi, umap, keybit, absbit, ffbit,
    ff_play, out, cur_report, first_len, last>>

\* a record of one hook call
call(hook, args, ret, calls, input) ==
  [hook |-> hook, args |-> args, ret |-> ret, calls |-> calls, input |-> input]

no_call == call("none", <<>>, 0, <<>>, <<>>)

unmapped == [type |-> "", code |-> ""]

Init ==
  /\ product \in Products
  /\ dev_rsize \in RSizes
  /\ dpad_as_buttons \in BOOLEAN
  /\ pc = "unbound"
  /\ mi = 0
  /\ umap = <<>>
  /\ keybit = {}
  /\ absbit = {}
  /\ ffbit = FALSE
  /\ ff_play = FALSE
  /\ out = <<>>
  /\ cur_report = 0
  /\ first_len = 0
  /\ last = no_call

(***************************************************************************)
(* xpadneo_probe_device up to its call of hid_hw_start, which has hid-core *)
(* walk the descriptor's usages (Mapping), call the input-configured hook  *)
(* (InputConfigured) and register the input device.                        *)
(***************************************************************************)
Probe ==
  /\ pc = "unbound"
  /\ \E failure \in {"none", "devm_kzalloc", "hid_parse", "hid_hw_start"} :
       IF failure = "none"
       THEN /\ pc' = "mapping"
            /\ mi' = 1
            /\ last' = call("probe", <<>>, "running", <<>>, <<>>)
       ELSE /\ pc' = "unbound"
            /\ mi' = 0
            /\ last' = call("probe", <<>>,
                            IF failure = "devm_kzalloc" THEN "-ENOMEM" ELSE "ret",
                            <<>>, <<>>)
  /\ UNCHANGED <<product, dev_rsize, dpad_as_buttons, umap, keybit, absbit,
                 ffbit, ff_play, out, cur_report, first_len>>

\* hidinput_configure_usage after the hook returned: a usage the hook
\* mapped keeps the hook's (type, code); one left to hid-core is mapped by
\* its own rules (the hat switch to ABS_HAT0X); an ignored one is not mapped
hid_core_usage(upid, uid, r) ==
  IF r.ret > 0 THEN [type |-> r.clear[1], code |-> r.clear[2]]
  ELSE IF r.ret < 0 THEN unmapped
  ELSE IF upid = HID_UP_GENDESK /\ uid = \h39
    THEN [type |-> EV_ABS, code |-> "ABS_HAT0X"]
  ELSE [type |-> "EV_AUTO", code |-> "AUTO"]

\* the capability bits hid-core sets for a mapped usage (a hat switch
\* takes two axes)
hid_core_bits(u, type) ==
  IF u.type # type THEN {}
  ELSE IF u.code = "ABS_HAT0X" THEN {"ABS_HAT0X", "ABS_HAT0Y"}
  ELSE {u.code}

Mapping ==
  /\ pc = "mapping"
  /\ mi <= Len(Desc(dev_rsize))
  /\ LET usage == Desc(dev_rsize)[mi] IN
     \E ub \in UBReads :
       LET r == xpadneo_mapping(product, usage[1], usage[2], ub)
           u == hid_core_usage(usage[1], usage[2], r)
       IN
       /\ last' = call("mapping", usage, r.ret, r.clear, <<>>)
       /\ IF r.oops
          THEN /\ pc' = "oops"
               /\ UNCHANGED <<mi, umap, keybit, absbit>>
          ELSE /\ pc' = IF mi = Len(Desc(dev_rsize)) THEN "configure" ELSE "mapping"
               /\ mi' = mi + 1
               /\ umap' = Append(umap, u)
               /\ keybit' = keybit \cup hid_core_bits(u, EV_KEY)
               /\ absbit' = absbit \cup hid_core_bits(u, EV_ABS)
  /\ UNCHANGED <<product, dev_rsize, dpad_as_buttons, ffbit, ff_play, out,
                 cur_report, first_len>>

DPAD == <<"BTN_DPAD_UP", "BTN_DPAD_RIGHT", "BTN_DPAD_DOWN", "BTN_DPAD_LEFT">>

\* xpadneo_input_configured registering the D-pad buttons whatever the
\* parameter says
xpadneo_input_configured_always(flag, caps) ==
  [keybit |-> caps.keybit \cup {DPAD[i] : i \in 1 .. 4},
   absbit |-> IF flag THEN caps.absbit \ {"ABS_HAT0X", "ABS_HAT0Y"}
              ELSE caps.absbit]

\* xpadneo_input_configured: the capability bitmaps it leaves
xpadneo_input_configured(flag, caps) ==
  IF flag
  THEN [keybit |-> caps.keybit \cup {DPAD[i] : i \in 1 .. 4},
        absbit |-> caps.absbit \ {"ABS_HAT0X", "ABS_HAT0Y"}]
  ELSE caps

InputConfigured ==
  /\ pc = "configure"
  /\ LET caps == xpadneo_input_configured(dpad_as_buttons,
                   [keybit |-> keybit, absbit |-> absbit])
     IN /\ keybit' = caps.keybit
        /\ absbit' = caps.absbit
  /\ pc' = "init"
  /\ last' = call("input_configured", <<>>, 0, <<>>, <<>>)
  /\ UNCHANGED <<product, dev_rsize, dpad_as_buttons, mi, umap, ffbit, ff_play,
                 out, cur_report, first_len>>

\* what hid_hw_output_report returns: the number of bytes written, or a
\* negative errno when the transport write fails
hw_results == {9, -5}

\* the calls xpadneo_initDevice makes once the output-report check has
\* passed, in order
hello_calls(first, second) ==
  << <<"hid_hw_output_report", first>>,
     <<"mdelay", 500>>,
     <<"hid_hw_output_report", second>>,
     <<"input_set_capability", "EV_FF", "FF_RUMBLE">>,
     <<"input_ff_create_memless", "xpadneo_ff_play">> >>

\* xpadneo_initDevice sending the left pulse first
xpadneo_initDevice_left_first(list_empty, ff_error, hw) ==
  IF list_empty
  THEN [ret |-> "-ENODEV", sent |-> <<>>, trace |-> <<>>,
        ffbit |-> FALSE, ff_play |-> FALSE]
  ELSE [ret |-> IF ff_error THEN "error" ELSE "0",
        sent |-> <<hello_left, hello_right>>,
        trace |-> hello_calls(hello_left, hello_right),
        ffbit |-> TRUE,
        ff_play |-> ~ff_error]

\* xpadneo_initDevice: its return value, the reports it sends, the calls
\* it makes (trace) and what it registers, given whether the device has an
\* output report, whether input_ff_create_memless fails, and what the two
\* transport writes returned (hw, which it does not look at)
xpadneo_initDevice(list_empty, ff_error, hw) ==
  IF list_empty
  THEN [ret |-> "-ENODEV", sent |-> <<>>, trace |-> <<>>,
        ffbit |-> FALSE, ff_play |-> FALSE]
  ELSE [ret |-> IF ff_error THEN "error" ELSE "0",
        sent |-> <<hello_right, hello_left>>,
        trace |-> hello_calls(hello_right, hello_left),
        ffbit |-> TRUE,
        ff_play |-> ~ff_error]

\* the rest of xpadneo_probe_device: it calls xpadneo_initDevice, drops its
\* return value and returns 0
InitDevice ==
  /\ pc = "init"
  /\ \E list_empty \in BOOLEAN, ff_error \in BOOLEAN,
        hw \in hw_results \X hw_results :
       LET r == xpadneo_initDevice(list_empty, ff_error, hw) IN
       /\ out' = out \o r.sent
       /\ ffbit' = r.ffbit
       /\ ff_play' = r.ff_play
       /\ last' = call("probe",
                       <<r.ret>> \o (IF r.sent = <<>> THEN <<>> ELSE hw),
                       "0", r.trace, <<>>)
  /\ pc' = "bound"
  /\ UNCHANGED <<product, dev_rsize, dpad_as_buttons, mi, umap, keybit, absbit,
                 cur_report, first_len>>

(***************************************************************************)
(* Incoming reports.                                                       *)
(***************************************************************************)
ReportIds == {1, 2, 4}
PayloadLens == {16, 17, 1}

\* xpadneo_raw_event: its return value
xpadneo_raw_event(id, size) == 0

\* hid-core hands every report to the raw-event hook first, and parses it
\* into usages unless the hook returns non-zero
RawEvent ==
  /\ pc = "bound"
  /\ \E id \in ReportIds, len \in PayloadLens :
       LET ret == xpadneo_raw_event(id, len + 1) IN
       /\ cur_report' = IF ret = 0 THEN id ELSE 0
       /\ first_len' = IF id = 1 /\ first_len = 0 THEN len ELSE first_len
       /\ last' = call("raw_event", <<id, len>>, ret, <<>>, <<>>)
  /\ UNCHANGED <<product, dev_rsize, dpad_as_buttons, pc, mi, umap, keybit,
                 absbit, ffbit, ff_play, out>>

EV_CONT_PROCESSING == 0
EV_STOP_PROCESSING == 1

\* a C truth value
Bool(b) == IF b THEN 1 ELSE 0

\* xpadneo_event with value 8 left out of the up range
xpadneo_event_no8(upid, uid, value) ==
  IF uid = \h39
  THEN [ret |-> EV_CONT_PROCESSING,
        keys |->
          << <<DPAD[1], Bool(value >= 1 /\ value <= 2)>>,
             <<DPAD[2], Bool(value >= 2 /\ value <= 4)>>,
             <<DPAD[3], Bool(value >= 4 /\ value <= 6)>>,
             <<DPAD[4], Bool(value >= 6 /\ value <= 8)>> >>]
  ELSE [ret |-> EV_CONT_PROCESSING, keys |-> <<>>]

\* xpadneo_event with an unguarded fix-up of the Button page: it reports
\* the button itself and stops further processing
xpadneo_event_fixup(upid, uid, value) ==
  IF upid = HID_UP_BUTTON
  THEN [ret |-> EV_STOP_PROCESSING, keys |-> << <<"BTN_SOUTH", value>> >>]
  ELSE [ret |-> EV_CONT_PROCESSING, keys |-> <<>>]

\* xpadneo_event with the right range starting one value late, so that
\* value 2 is no diagonal
xpadneo_event_right_late(upid, uid, value) ==
  IF uid = \h39
  THEN [ret |-> EV_CONT_PROCESSING,
        keys |->
          << <<DPAD[1], Bool((value >= 1 /\ value <= 2) \/ value = 8)>>,
             <<DPAD[2], Bool(value >= 3 /\ value <= 4)>>,
             <<DPAD[3], Bool(value >= 4 /\ value <= 6)>>,
             <<DPAD[4], Bool(value >= 6 /\ value <= 8)>> >>]
  ELSE [ret |-> EV_CONT_PROCESSING, keys |-> <<>>]

\* xpadneo_event reporting the D-pad buttons only while the parameter is
\* set
xpadneo_event_by_flag(upid, uid, value) ==
  IF uid = \h39 /\ dpad_as_buttons
  THEN [ret |-> EV_CONT_PROCESSING,
        keys |->
          << <<DPAD[1], Bool((value >= 1 /\ value <= 2) \/ value = 8)>>,
             <<DPAD[2], Bool(value >= 2 /\ value <= 4)>>,
             <<DPAD[3], Bool(value >= 4 /\ value <= 6)>>,
             <<DPAD[4], Bool(value >= 6 /\ value <= 8)>> >>]
  ELSE [ret |-> EV_CONT_PROCESSING, keys |-> <<>>]

\* xpadneo_event: its return value and its input_report_key calls, in order
xpadneo_event(upid, uid, value) ==
  IF uid = \h39
  THEN [ret |-> EV_CONT_PROCESSING,
        keys |->
          << <<DPAD[1], Bool((value >= 1 /\ value <= 2) \/ value = 8)>>,
             <<DPAD[2], Bool(value >= 2 /\ value <= 4)>>,
             <<DPAD[3], Bool(value >= 4 /\ value <= 6)>>,
             <<DPAD[4], Bool(value >= 6 /\ value <= 8)>> >>]
  ELSE [ret |-> EV_CONT_PROCESSING, keys |-> <<>>]

\* the report a usage of the descriptor arrives in
report_of(usage) ==
  IF usage = Usage(HID_UP_CONSUMER, \h223) THEN 2
  ELSE IF usage[1] = HID_UP_GENDEVCTRLS THEN 4
  ELSE 1

\* the values a usage's field takes
Values(usage) == IF usage[2] = \h39 THEN 0 .. MaxValue ELSE {0, 1}

\* the usages whose events the model follows
EventUsages ==
  {Usage(HID_UP_GENDESK, \h39), Usage(HID_UP_GENDESK, \h30),
   Usage(HID_UP_BUTTON, \h01), Usage(HID_UP_BUTTON, \h03),
   Usage(HID_UP_BUTTON, \h0A), Usage(HID_UP_CONSUMER, \h223)}

\* input_event: the input device passes an event on only if its code is in
\* the capability bitmap of its type
supported(type, code) ==
  \/ type = EV_KEY /\ code \in keybit
  \/ type = EV_ABS /\ code \in absbit
  \/ type = "EV_AUTO"

\* hid-core calls the event hook for each usage of the report it parses,
\* and, unless the hook returns non-zero, reports the usage's own event
Event ==
  /\ pc = "bound"
  /\ cur_report # 0
  /\ \E i \in 1 .. Len(Desc(dev_rsize)) :
       LET usage == Desc(dev_rsize)[i] IN
       /\ usage \in EventUsages
       /\ report_of(usage) = cur_report
       /\ \E value \in Values(usage) :
            LET r == xpadneo_event(usage[1], usage[2], value)
                own == IF r.ret = 0 /\ umap[i] # unmapped
                       THEN << <<umap[i].type, umap[i].code>> >>
                       ELSE <<>>
                emitted == [k \in 1 .. Len(r.keys) |-> <<EV_KEY, r.keys[k][1]>>]
                          \o own
                passed(e) == supported(e[1], e[2])
            IN last' = call("event", <<usage[1], usage[2], value>>, r.ret,
                            r.keys, SelectSeq(emitted, passed))
  /\ UNCHANGED <<product, dev_rsize, dpad_as_buttons, pc, mi, umap, keybit,
                 absbit, ffbit, ff_play, out, cur_report, first_len>>

(***************************************************************************)
(* Force feedback.                                                         *)
(***************************************************************************)
\* the rumble effects played: <<weak_magnitude, strong_magnitude>>
Effects ==
  {<<\h00FF, \h99AB>>, <<\h0012, \h9900>>, <<\h99AB, \h00FF>>}

\* xpadneo_ff_play handing the transport's result to its caller
xpadneo_ff_play_ret_propagated(hw_ret) == IF hw_ret < 0 THEN hw_ret ELSE 0

\* xpadneo_ff_play: its return value, given what hid_hw_output_report
\* returned
xpadneo_ff_play_ret(hw_ret) == 0

\* the input subsystem plays a rumble effect through the memless callback;
\* the callback makes one hid_hw_output_report call, which returns hw_ret
FFPlay ==
  /\ pc = "bound"
  /\ ff_play
  /\ \E effect \in Effects, hw_ret \in hw_results :
       LET report == xpadneo_ff_play(effect[1], effect[2]) IN
       /\ out' = IF Len(out) < MaxOut THEN Append(out, report) ELSE out
       /\ last' = call("ff_play", <<effect[1], effect[2], hw_ret>>,
                       xpadneo_ff_play_ret(hw_ret), <<report>>, <<>>)
  /\ UNCHANGED <<product, dev_rsize, dpad_as_buttons, pc, mi, umap, keybit,
                 absbit, ffbit, ff_play, cur_report, first_len>>

(***************************************************************************)
(* The module parameter is writable (0644) at any time.                    *)
(***************************************************************************)
SetParam ==
  /\ dpad_as_buttons' = ~dpad_as_buttons
  /\ UNCHANGED <<product, dev_rsize, pc, mi, umap, keybit, absbit, ffbit,
                 ff_play, out, cur_report, first_len, last>>

(***************************************************************************)
(* xpadneo_remove_device: hid_hw_stop; the device may connect again.       *)
(***************************************************************************)
Remove ==
  /\ pc = "bound"
  /\ pc' = "unbound"
  /\ mi' = 0
  /\ umap' = <<>>
  /\ keybit' = {}
  /\ absbit' = {}
  /\ ffbit' = FALSE
  /\ ff_play' = FALSE
  /\ out' = <<>>
  /\ cur_report' = 0
  /\ first_len' = 0
  /\ last' = call("remove", <<>>, 0, <<>>, <<>>)
  /\ UNCHANGED <<product, dev_rsize, dpad_as_buttons>>

Next ==
  \/ Probe
  \/ Mapping
  \/ InputConfigured
  \/ InitDevice
  \/ RawEvent
  \/ Event
  \/ FFPlay
  \/ SetParam
  \/ Remove

Spec == Init /\ [][Next]_vars

(***************************************************************************)
(* Properties.                                                             *)
(***************************************************************************)
HatUsage == \h39

\* the D-pad buttons an event-hook call asserted (reported with value 1)
Asserted(c) == {c.calls[k][1] : k \in {j \in 1 .. Len(c.calls) : c.calls[j][2] = 1}}

IsHatEvent(c) == c.hook = "event" /\ c.args[2] = HatUsage

\* no direction, one direction, or two adjacent directions
DpadCombinations ==
  {{}} \cup {{DPAD[i]} : i \in 1 .. 4}
       \cup {{DPAD[i], DPAD[(i % 4) + 1]} : i \in 1 .. 4}

\* C1: for every hat value v in 0..8 handed to the event hook on usage 0x39
\* the hook reports the four D-pad buttons, in the order up, right, down,
\* left, with Up=(1<=v<=2 or v=8), Right=(2<=v<=4), Down=(4<=v<=6),
\* Left=(6<=v<=8); so each value asserts no direction, one, or two adjacent
\* ones, 0 asserts none and 8 asserts exactly up and left.
C1_DpadDecode ==
  (IsHatEvent(last) /\ last.args[3] \in 0 .. 8) =>
    LET v == last.args[3] IN
    /\ last.calls =
         << <<"BTN_DPAD_UP", Bool((1 <= v /\ v <= 2) \/ v = 8)>>,
            <<"BTN_DPAD_RIGHT", Bool(2 <= v /\ v <= 4)>>,
            <<"BTN_DPAD_DOWN", Bool(4 <= v /\ v <= 6)>>,
            <<"BTN_DPAD_LEFT", Bool(6 <= v /\ v <= 8)>> >>
    /\ Asserted(last) \in DpadCombinations
    /\ (v = 0 => Asserted(last) = {})
    /\ (v = 8 => Asserted(last) = {"BTN_DPAD_UP", "BTN_DPAD_LEFT"})

\* a hat event with value 8 has been decoded to up + left
C1_Witness ==
  /\ IsHatEvent(last)
  /\ last.args[3] = 8
  /\ Asserted(last) = {"BTN_DPAD_UP", "BTN_DPAD_LEFT"}

\* the high byte of a 16-bit magnitude
Hi(x) == x \div 256

\* C2 (per call): the report xpadneo_ff_play hands to the transport has
\* magnitude_left = high byte of strong, magnitude_right = high byte of
\* weak, duration = 0xFF, loop_count = 0xFF and both actuator-enable bits
\* set; a magnitude below 0x0100 encodes as 0.
C2_Encoding ==
  last.hook = "ff_play" =>
    LET weak == last.args[1]
        strong == last.args[2]
        report == last.calls[1]
    IN /\ report[2] = 3
       /\ report[5] = Hi(strong)
       /\ report[6] = Hi(weak)
       /\ report[7] = 255
       /\ report[9] = 255
       /\ (weak < 256 => report[6] = 0)
       /\ (strong < 256 => report[5] = 0)

\* C2 (two calls): consecutive calls whose magnitudes differ only in their
\* low bytes produce identical reports.
C2_LowBytes ==
  (/\ last.hook = "ff_play"
   /\ last'.hook = "ff_play"
   /\ Hi(last.args[1]) = Hi(last'.args[1])
   /\ Hi(last.args[2]) = Hi(last'.args[2]))
  => last'.calls = last.calls

\* C2: xpadneo_ff_play encodes the high bytes of the magnitudes, with
\* duration and loop count 0xFF and both actuators enabled, and the low
\* bytes of the magnitudes do not reach the report.
C2_RumbleEncoding == [](C2_Encoding) /\ [][C2_LowBytes]_vars

\* a rumble whose weak magnitude is below 0x0100 and whose strong magnitude
\* has a low byte has been encoded
C2_Witness ==
  /\ last.hook = "ff_play"
  /\ last.args[1] = \h00FF
  /\ last.args[2] = \h99AB
  /\ last.calls[1][5] = \h99
  /\ last.calls[1][6] = 0

\* every report handed to the transport: the ones kept in out, and the one
\* of the latest rumble
Handed ==
  {out[i] : i \in 1 .. Len(out)}
    \cup (IF last.hook = "ff_play" THEN {last.calls[1]} ELSE {})

\* the ForceFeedbackCommand layout: report ID 3, enable bitmask, two
\* reserved bytes, left magnitude, right magnitude, duration, start delay,
\* loop count
IsCommand(r, n) ==
  /\ Len(r) = n
  /\ r[1] = 3
  /\ r[2] \in 1 .. 3
  /\ r[3] = 0 /\ r[4] = 0
  /\ \A i \in 5 .. n : r[i] \in 0 .. 255

\* C3 as stated: every output report is 8 bytes long in total.
C3_EightBytes == \A r \in Handed : Len(r) = 8

\* C3 as amended: every output report (the rumble command and both hello
\* packages) is the fixed record of 9 bytes in total: report ID 3, then the
\* 8 bytes enable bitmask, 2 reserved bytes, left magnitude, right
\* magnitude, duration, start delay, loop count, without padding.
C3_NineBytes ==
  /\ \A r \in Handed : IsCommand(r, 9)
  /\ Len(out) >= 2 =>
       /\ out[1] = <<3, 1, 0, 0, 0, \h99, 50, 0, 0>>
       /\ out[2] = <<3, 2, 0, 0, \h99, 0, 50, 0, 0>>
  /\ last.hook = "ff_play" =>
       last.calls[1] =
         <<3, 3, 0, 0, Hi(last.args[2]), Hi(last.args[1]), 255, 0, 255>>

\* both hello packages and a rumble command have been handed over
C3_Witness ==
  /\ Len(out) = 3
  /\ last.hook = "ff_play"
  /\ Len(last.calls[1]) = 9

\* the usages a table declares (a non-zero entry), by page
Declared(mup) ==
  {uid \in DOMAIN mup.input_ev : mup.input_ev[uid].map_type # MAP_IGNORE}

PageOf(device_map, upid) ==
  CASE upid = HID_UP_BUTTON -> device_map.button
    [] upid = HID_UP_GENDESK -> device_map.generic_desktop
    [] upid = HID_UP_SIMULATION -> device_map.simulation
    [] upid = HID_UP_CONSUMER -> device_map.consumer
    [] OTHER -> zero_usagepage

HasEntry(device_map, upid, uid) == uid \in Declared(PageOf(device_map, upid))

\* the table as a partial function: the policy an entry stands for,
\* Ignore where there is none
Policy(device_map, upid, uid) ==
  IF ~HasEntry(device_map, upid, uid) THEN <<RET_MAP_IGNORE, <<>>>>
  ELSE LET m == PageOf(device_map, upid).input_ev[uid] IN
       IF m.map_type = MAP_AUTO THEN <<RET_MAP_AUTO, <<>>>>
       ELSE <<RET_MAP_STATIC, <<m.map_to_event_type, m.map_to_input_code>>>>

TableOf(p) == IF p = PRODUCT_X THEN xboxone_x_map ELSE xboxone_s_map

\* a call of the mapping hook has been made (it may not have returned)
MappingCalled == last.hook = "mapping"

\* C4: for a device with a known mapping table the mapping hook returns
\* Ignore, without calling hid_map_usage_clear, for every usage that has no
\* entry in that table: another usage page, a usage id above the page's
\* max, an undeclared slot, a usage on a page the table does not define.
C4_AbsentIsIgnore ==
  (/\ MappingCalled
   /\ product \in {PRODUCT_X, PRODUCT_S}
   /\ ~HasEntry(TableOf(product), last.args[1], last.args[2]))
  => /\ pc # "oops"
     /\ last.ret = RET_MAP_IGNORE
     /\ last.calls = <<>>

\* the dialect a report descriptor of the given length advertises
AdvertisedDialect(rsize) ==
  CASE rsize = 307 -> "WindowsStyle"
    [] rsize = 335 -> "LinuxStyle"
    [] OTHER -> "Unknown"

\* the dialect a first report-ID-1 payload of the given length shows
ObservedDialect(len) ==
  CASE len = 16 -> "WindowsStyle"
    [] len = 17 -> "LinuxStyle"
    [] OTHER -> "Unknown"

\* C5: the mapping hook answers by the table of the advertised dialect
\* (descriptor length 307: the WindowsStyle table, 335: the LinuxStyle
\* table), whatever the product id, and answers AutoDetect for every usage
\* when the advertised dialect is Unknown.
C5_TableByDialect ==
  (MappingCalled /\ pc # "oops") =>
    LET d == AdvertisedDialect(dev_rsize)
        answer == <<last.ret, last.calls>>
    IN answer =
         CASE d = "WindowsStyle" ->
                Policy(xboxone_x_map, last.args[1], last.args[2])
           [] d = "LinuxStyle" ->
                Policy(xboxone_s_map, last.args[1], last.args[2])
           [] OTHER -> <<RET_MAP_AUTO, <<>>>>

\* the mismatch: the descriptor advertised LinuxStyle, the first report
\* showed WindowsStyle
Mismatch ==
  /\ AdvertisedDialect(dev_rsize) = "LinuxStyle"
  /\ ObservedDialect(first_len) = "WindowsStyle"

\* the fixed button codes of Button usages 0x01..0x0A, in numeric order
FixedButton ==
  <<"BTN_SOUTH", "BTN_EAST", "BTN_WEST", "BTN_NORTH", "BTN_TL", "BTN_TR",
    "BTN_SELECT", "BTN_START", "BTN_THUMBL", "BTN_THUMBR">>

IsButtonEvent(c) == c.hook = "event" /\ c.args[1] = HID_UP_BUTTON

\* C6: after a probe with descriptor length 335 and a first report-ID-1
\* payload of length 16, the event hook emits every Button usage 0x01..0x0A
\* itself, as the fixed button code, and returns Suppress.
C6_MismatchCorrection ==
  (Mismatch /\ IsButtonEvent(last) /\ last.args[2] \in 1 .. 10) =>
    /\ last.ret = EV_STOP_PROCESSING
    /\ last.calls = << <<FixedButton[last.args[2]], last.args[3]>> >>

\* C7: the event hook does not intercept Button usage 0x01 (it returns
\* Continue and reports no button itself) unless the first report showed
\* WindowsStyle and the descriptor advertised LinuxStyle.
C7_NoInterceptWithoutMismatch ==
  (IsButtonEvent(last) /\ last.args[2] = 1 /\ ~Mismatch) =>
    /\ last.ret = EV_CONT_PROCESSING
    /\ last.calls = <<>>

\* descriptor length 307, first report length 16: Button usage 0x01 went
\* through the hook untouched and hid-core reported the table's BTN_SOUTH
C7_Witness ==
  /\ IsButtonEvent(last)
  /\ last.args[2] = 1
  /\ dev_rsize = 307
  /\ first_len = 16
  /\ product = PRODUCT_X
  /\ last.ret = EV_CONT_PROCESSING
  /\ last.input = << <<EV_KEY, "BTN_SOUTH">> >>

\* C8: the raw-event hook returns Suppress (non-zero) for report ID 4 and
\* Continue (zero) for every other report ID.
C8_BatterySuppressed ==
  last.hook = "raw_event" =>
    IF last.args[1] = 4 THEN last.ret # 0 ELSE last.ret = 0

\* C10: when the D-pad buttons are exposed, a hat value still produces the
\* native hat-axis event: the event hook returns Continue for usage 0x39,
\* the hat axis codes are in the capability set and the axis event is
\* passed on.
C10_HatAxisKept ==
  (/\ IsHatEvent(last)
   /\ last.args[1] = HID_UP_GENDESK
   /\ {DPAD[i] : i \in 1 .. 4} \subseteq keybit)
  => /\ last.ret = EV_CONT_PROCESSING
     /\ {"ABS_HAT0X", "ABS_HAT0Y"} \subseteq absbit
     /\ \E k \in 1 .. Len(last.input) : last.input[k] = <<EV_ABS, "ABS_HAT0X">>

\* the latest hook call is xpadneo_probe_device's final part, and the
\* xpadneo_initDevice call it made failed (no output report, or
\* input_ff_create_memless returned an error)
InitDeviceFailed ==
  last.hook = "probe" /\ Len(last.args) > 0 /\ last.args[1] # "0"

\* C11: a failure during setup is fatal to the attach: when the devdata
\* allocation, hid_parse, hid_hw_start, the output-report check of
\* xpadneo_initDevice or input_ff_create_memless fails,
\* xpadneo_probe_device returns nonzero and the device does not stay bound.
C11_SetupFailureFatal ==
  /\ (last.hook = "probe" /\ last.ret \notin {"0", "running"}) => pc = "unbound"
  /\ InitDeviceFailed => (last.ret # "0" /\ pc # "bound")

\* the latest hook call is xpadneo_probe_device's final part and its
\* xpadneo_initDevice call sent the handshake
HandshakeSent == last.hook = "probe" /\ Len(last.args) = 3

\* the reports a hook call handed to hid_hw_output_report, in order
IsWrite(x) == x[1] = "hid_hw_output_report"
Writes(c) ==
  LET w == SelectSeq(c.calls, IsWrite) IN [k \in 1 .. Len(w) |-> w[k][2]]

\* C12: a failed transport write is neither retried nor propagated: each
\* rumble command and each handshake pulse is handed to
\* hid_hw_output_report exactly once, xpadneo_ff_play returns 0 whatever
\* the write returned, and xpadneo_initDevice's result depends only on
\* input_ff_create_memless, never on the two writes.
C12_WriteFailureSwallowed ==
  /\ last.hook = "ff_play" =>
       /\ last.ret = 0
       /\ last.calls = <<xpadneo_ff_play(last.args[1], last.args[2])>>
  /\ HandshakeSent =>
       /\ Writes(last) = <<hello_right, hello_left>>
       /\ (last.args[1] = "0") <=> ff_play

\* a rumble command whose one transport write failed, played by a device
\* whose handshake went out before
C12_Witness ==
  /\ last.hook = "ff_play"
  /\ last.args[3] < 0
  /\ last.ret = 0
  /\ Len(last.calls) = 1
  /\ Len(out) >= 2

DpadCodes == {DPAD[i] : i \in 1 .. 4}

\* the input-configured hook has run for the present connection
Configured == pc \in {"init", "bound"}

\* C13 (states): before xpadneo_input_configured has run no D-pad button
\* code is registered; afterwards either all four are or none is; and the
\* event hook runs only on a configured device.
C13_Registered ==
  /\ ~Configured => DpadCodes \cap keybit = {}
  /\ Configured => (DpadCodes \subseteq keybit \/ DpadCodes \cap keybit = {})
  /\ last.hook = "event" => Configured

\* C13 (steps): the step in which xpadneo_input_configured runs registers
\* the four codes exactly if dpad_as_buttons is set at that moment, and no
\* later step of the same connection changes the key capability bitmap.
C13_OncePerConnection ==
  /\ (pc = "configure" /\ pc' = "init") =>
       ((DpadCodes \subseteq keybit') <=> dpad_as_buttons)
  /\ (Configured /\ Configured') => keybit' = keybit

\* C13: the four D-pad button codes are in the key capability bitmap if
\* and only if dpad_as_buttons was set when xpadneo_input_configured ran;
\* they are registered once per connection, before the device is
\* registered and before any xpadneo_event call.
C13_DpadCapability == [](C13_Registered) /\ [][C13_OncePerConnection]_vars

\* a hat event on a device that registered the four codes, after the
\* parameter was cleared again
C13_Witness ==
  /\ IsHatEvent(last)
  /\ DpadCodes \subseteq keybit
  /\ ~dpad_as_buttons

\* the two test pulses byte by byte: report id 3, one actuator enabled,
\* magnitude 0x99 on that actuator and 0 on the other, duration 50, no
\* start delay, loop count 0
RightPulse == <<3, 1, 0, 0, 0, \h99, 50, 0, 0>>
LeftPulse == <<3, 2, 0, 0, \h99, 0, 50, 0, 0>>

\* C14 (states): nothing is sent and force feedback is not registered
\* before xpadneo_initDevice has run; a device with the force-feedback
\* capability has had the right pulse and then the left pulse as its first
\* two output reports, and no pulse is sent a second time; the call that
\* sent them made, in order, the write of the right pulse, the delay, the
\* write of the left pulse, and only then the registration calls.
C14_Handshake ==
  /\ pc # "bound" => (out = <<>> /\ ~ffbit /\ ~ff_play)
  /\ ff_play => ffbit
  /\ pc = "bound" =>
       IF ffbit
       THEN /\ Len(out) >= 2
            /\ out[1] = RightPulse
            /\ out[2] = LeftPulse
            /\ \A i \in 3 .. Len(out) : out[i] \notin {RightPulse, LeftPulse}
       ELSE out = <<>>
  /\ HandshakeSent =>
       /\ Len(last.calls) = 5
       /\ last.calls[1] = <<"hid_hw_output_report", RightPulse>>
       /\ last.calls[2][1] = "mdelay"
       /\ last.calls[3] = <<"hid_hw_output_report", LeftPulse>>
       /\ last.calls[4][1] = "input_set_capability"
       /\ last.calls[5][1] = "input_ff_create_memless"
  /\ (last.hook = "probe" /\ Len(last.args) = 1) => last.calls = <<>>

\* C14 (steps): only the step that runs xpadneo_initDevice starts the
\* output, and it sends nothing (no output report) or exactly the two
\* pulses; afterwards the first two reports stay what they were.
C14_OncePerProbe ==
  /\ (out = <<>> /\ out' # <<>>) =>
       (pc = "init" /\ pc' = "bound" /\ out' = <<RightPulse, LeftPulse>>)
  /\ (Len(out) >= 2 /\ pc' = "bound") => SubSeq(out', 1, 2) = SubSeq(out, 1, 2)

\* C14: the handshake sends exactly two output reports, once per probe:
\* the right-actuator pulse, then after the delay the left-actuator pulse,
\* each enabling one actuator at the test magnitude with the same brief
\* duration and loop count 0, both before the force-feedback capability is
\* registered, so that no rumble command precedes them.
C14_HandshakeOrder == [](C14_Handshake) /\ [][C14_OncePerProbe]_vars

\* a rumble command has followed the two pulses
C14_Witness ==
  /\ last.hook = "ff_play"
  /\ Len(out) = 3
  /\ out[1] = RightPulse
  /\ out[2] = LeftPulse
  /\ out[3][2] = 3

\* the direction at quarter q of the circle up, right, down, left (1..4),
\* going on from left to up again
Direction(q) == DPAD[((q - 1) % 4) + 1]

\* C15 as stated: hat values 1..8 run clockwise from up, an odd value
\* asserts two adjacent directions (a diagonal) and an even value asserts
\* a single direction.
C15_DiagonalsAtOdd ==
  (IsHatEvent(last) /\ last.args[3] \in 1 .. 8) =>
    LET v == last.args[3] IN
    IF v % 2 = 1
    THEN \E q \in 1 .. 4 : Asserted(last) = {Direction(q), Direction(q + 1)}
    ELSE \E q \in 1 .. 4 : Asserted(last) = {Direction(q)}

\* C15: hat values 1..8 run clockwise from up; the odd values 1, 3, 5, 7
\* assert the single directions up, right, down, left, and each even value
\* 2, 4, 6, 8 asserts the diagonal between its two odd neighbours (8: left
\* and up).
C15_DiagonalsAtEven ==
  (IsHatEvent(last) /\ last.args[3] \in 1 .. 8) =>
    LET v == last.args[3] IN
    IF v % 2 = 1
    THEN Asserted(last) = {Direction((v + 1) \div 2)}
    ELSE Asserted(last) = {Direction(v \div 2), Direction((v \div 2) + 1)}

\* the hat at value 2 asserts up and right together
C15_Witness ==
  /\ IsHatEvent(last)
  /\ last.args[3] = 2
  /\ Asserted(last) = {"BTN_DPAD_UP", "BTN_DPAD_RIGHT"}

\* the D-pad as four button events, and as the hat axis event
ButtonEvents == [k \in 1 .. 4 |-> <<EV_KEY, DPAD[k]>>]
HatAxisEvent == << <<EV_ABS, "ABS_HAT0X">> >>

\* C16 (states): for every hat event the hook reports the same four
\* buttons whatever the parameter is now, and what the input device
\* passes on follows the capability set alone: the four button events if
\* the D-pad codes are registered, the hat axis event otherwise.
C16_DeliveredByCapability ==
  IsHatEvent(last) =>
    /\ [k \in 1 .. Len(last.calls) |-> last.calls[k][1]] = DPAD
    /\ last.input = IF DpadCodes \subseteq keybit THEN ButtonEvents
                    ELSE HatAxisEvent

\* C16 (steps): a write to the parameter changes no capability bitmap, and
\* as long as the device stays configured the bitmaps stay as
\* xpadneo_input_configured left them; the parameter is read again only by
\* the next xpadneo_input_configured call, after a reconnect.
C16_CapabilityFixed ==
  /\ dpad_as_buttons' # dpad_as_buttons =>
       (keybit' = keybit /\ absbit' = absbit /\ pc' = pc)
  /\ (Configured /\ Configured') => (keybit' = keybit /\ absbit' = absbit)
  /\ (pc = "configure" /\ pc' = "init") =>
       ((DpadCodes \subseteq keybit') <=> dpad_as_buttons)
       /\ ((absbit' \cap {"ABS_HAT0X", "ABS_HAT0Y"} = {}) <=> dpad_as_buttons)

\* C16: changing dpad_as_buttons while a controller is connected does not
\* change which D-pad events (buttons or hat axis) are delivered for that
\* connection; the new value takes effect only after a reconnect.
C16_FlagChangeDeferred ==
  [](C16_DeliveredByCapability) /\ [][C16_CapabilityFixed]_vars

\* the parameter was set after the device was configured without it: the
\* D-pad still arrives as the hat axis
C16_Witness ==
  /\ IsHatEvent(last)
  /\ dpad_as_buttons
  /\ DpadCodes \cap keybit = {}
  /\ last.input = HatAxisEvent

\* the mapping hook, called for this usage on this product, gets as far as
\* the read m = mup.input_ev[uid]
ReachesRead(p, upid, uid) ==
  /\ p \in {PRODUCT_X, PRODUCT_S}
  /\ upid \in {HID_UP_BUTTON, HID_UP_GENDESK, HID_UP_SIMULATION,
               HID_UP_CONSUMER}
  /\ uid <= PageOf(TableOf(p), upid).max

\* C17: whenever the mapping hook reads mup.input_ev[uid] the read is
\* safe: the page's array exists and uid is one of its indexes, so the
\* hook never faults, whatever product, usage page and usage id it is
\* called with.
C17_ReadSafe ==
  (MappingCalled /\ ReachesRead(product, last.args[1], last.args[2])) =>
    LET mup == PageOf(TableOf(product), last.args[1]) IN
    /\ mup.input_ev # NULL
    /\ last.args[2] \in DOMAIN mup.input_ev
    /\ pc # "oops"

\* the usage pages a mapping table has a member for
TablePages ==
  {HID_UP_BUTTON, HID_UP_GENDESK, HID_UP_SIMULATION, HID_UP_CONSUMER}

\* the usages a table maps statically, and the (type, code) each maps to
StaticUsages(device_map) ==
  UNION {{Usage(p, uid) :
            uid \in {u \in Declared(PageOf(device_map, p)) :
                       PageOf(device_map, p).input_ev[u].map_type = MAP_STATIC}} :
         p \in TablePages}

CodeOf(device_map, usage) ==
  LET m == PageOf(device_map, usage[1]).input_ev[usage[2]]
  IN <<m.map_to_event_type, m.map_to_input_code>>

StaticCodes(device_map) ==
  {CodeOf(device_map, usage) : usage \in StaticUsages(device_map)}

GamepadButtons ==
  {"BTN_SOUTH", "BTN_EAST", "BTN_NORTH", "BTN_WEST", "BTN_TL", "BTN_TR",
   "BTN_SELECT", "BTN_START", "BTN_THUMBL", "BTN_THUMBR", "BTN_MODE"}

GamepadAxes == {"ABS_X", "ABS_Y", "ABS_RX", "ABS_RY", "ABS_Z", "ABS_RZ"}

GamepadCodes ==
  {<<EV_KEY, b>> : b \in GamepadButtons} \cup {<<EV_ABS, a>> : a \in GamepadAxes}

\* what the claim says of one table
SameCodesNoDuplicate(device_map) ==
  /\ StaticCodes(device_map) = GamepadCodes
  /\ \A a, b \in StaticUsages(device_map) :
       CodeOf(device_map, a) = CodeOf(device_map, b) => a = b
  /\ device_map.generic_desktop.input_ev[HatUsage].map_type = MAP_AUTO

\* what the claim says of the two tables
BothTablesSameCodes ==
  /\ SameCodesNoDuplicate(xboxone_s_map)
  /\ SameCodesNoDuplicate(xboxone_x_map)

\* the descriptor whose usages a product's table is written for
OwnDescriptor ==
  \/ product = PRODUCT_S /\ dev_rsize = 335
  \/ product = PRODUCT_X /\ dev_rsize = 307

\* C18: the tables of products 0x02FD and 0x02E0 map statically onto the
\* same eleven buttons and six axes, leave the hat usage 0x39 to hid-core,
\* and map no two usages to the same (type, code); so a device mapped
\* through its own descriptor ends up with exactly these capabilities
\* (next to the hat axes and, by the parameter, the D-pad buttons).
C18_SameCodes ==
  /\ BothTablesSameCodes
  /\ (OwnDescriptor /\ pc \in {"configure", "init", "bound"}) =>
       /\ keybit \ DpadCodes = GamepadButtons
       /\ absbit \ {"ABS_HAT0X", "ABS_HAT0Y"} = GamepadAxes
       /\ \A i, j \in 1 .. Len(umap) :
            (umap[i] = umap[j] /\ umap[i] # unmapped) => i = j

\* a product-0x02E0 device has had all usages of its descriptor mapped
C18_Witness ==
  /\ product = PRODUCT_X
  /\ dev_rsize = 307
  /\ pc = "configure"
  /\ keybit = GamepadButtons
  /\ {"ABS_Z", "ABS_RZ"} \subseteq absbit

====
